---- MODULE Spec2Model ----
(***************************************************************************)
(* The students table of lib/sqlalchemy_sandbox.py, the ORM session that   *)
(* works on it, and the run of the script's __main__ block.                *)
(*                                                                         *)
(* A column value is None (Python None, SQL NULL) or Some(v).  A row of    *)
(* the table has an integer id (the SQLite rowid) and such values in the   *)
(* other columns.  table is the committed content of the store, txn is     *)
(* the content seen inside the session's open transaction.                 *)
(***************************************************************************)
EXTENDS Integers, Sequences, FiniteSets, TLC

\* Bounds of the model.
MaxStudents == 2
MaxTime == 2

None == <<>>
Some(v) == <<v>>
Optional(S) == {None} \cup {Some(v) : v \in S}

\* Constructor arguments drawn by the repository operations.
Names == {"Albert Einstein", "Alan Turing"}
Emails == {"albert.einstein@zurich.edu", "alan.turing@sherborne.edu"}
Grades == {0, 11, 13}

VARIABLES
    table,            \* committed rows of students
    txn,              \* rows as seen in the session's open transaction
    objs,             \* the Student objects constructed so far, by number
    new,              \* session.new: pending objects, in the order added
    now,              \* the clock read by datetime.now()
    default_enrolled, \* the default of Column enrolled_date
    result,           \* what the last call returned or raised
    pc                \* position in __main__ ("session": no script running)

vars == <<table, txn, objs, new, now, default_enrolled, result, pc>>

-----------------------------------------------------------------------------
\* The Student class and the constraints of its table.

\* Student(name=..., email=..., grade=..., birthday=...): id is unset.  attrs
\* are the values the INSERT will write; once the object is flushed its
\* values are those of its row, and attrs is dropped.
Student(n, e, g, b) ==
    [attrs |-> Some([name |-> n, email |-> e, grade |-> g, birthday |-> b]),
     id |-> None, constructed |-> now, st |-> "transient", committed |-> FALSE]

\* CHECK (grade BETWEEN 1 AND 12): a row is rejected when the test is false;
\* on NULL the test is NULL, not false.
CheckGrade(g) == g = None \/ (g[1] >= 1 /\ g[1] <= 12)

\* UNIQUE (email): no other row has the same non-NULL email.
\* (variant: the constraint is not declared)
UniqueEmailMissing(rows, e) == TRUE
UniqueEmail(rows, e) == e = None \/ \A r \in rows : r.email # e

Max(S) == CHOOSE x \in S : \A y \in S : y <= x

\* id INTEGER PRIMARY KEY without AUTOINCREMENT: the rowid of a new row is
\* one more than the largest rowid in the table.
NextId(rows) == IF rows = {} THEN 1 ELSE Max({r.id : r \in rows}) + 1

\* The row an INSERT of object s writes; enrolled_date is not given by the
\* constructor, the column default fills it.
Row(i, s) ==
    [id |-> i, name |-> s.attrs[1].name, email |-> s.attrs[1].email,
     grade |-> s.attrs[1].grade, birthday |-> s.attrs[1].birthday,
     enrolled_date |-> default_enrolled]

\* The constraint that rejects row r, "" when none does.  The store tests
\* the CHECK first, then the primary key, then the UNIQUE index.
Violation(rows, r) ==
    IF ~CheckGrade(r.grade) THEN "grade_between_1_and_12"
    ELSE IF \E x \in rows : x.id = r.id THEN "id_pk"
    ELSE IF ~UniqueEmail(rows, r.email) THEN "unique-email"
    ELSE ""

-----------------------------------------------------------------------------
\* The session's unit of work.

\* INSERT the pending objects in order; stop at the first IntegrityError.
RECURSIVE InsertAll(_, _, _)
InsertAll(rows, pend, ids) ==
    IF pend = <<>> THEN [ok |-> TRUE, rows |-> rows, ids |-> ids, err |-> ""]
    ELSE LET o == Head(pend)
             r == Row(NextId(rows), objs[o])
         IN  IF Violation(rows, r) # ""
             THEN [ok |-> FALSE, rows |-> rows, ids |-> ids,
                   err |-> Violation(rows, r)]
             ELSE InsertAll(rows \cup {r}, Tail(pend), ids @@ (o :> r.id))

Marked == {objs[o].id[1] : o \in {p \in DOMAIN objs : objs[p].st = "marked"}}

\* DELETE the rows of the objects session.delete() marked.
\* (variant: the DELETE matches no row)
DeleteMarkedKeep(rows) == rows
DeleteMarked(rows) == {r \in rows : r.id \notin Marked}

\* session.flush(): the INSERTs, then the DELETEs.
Flush ==
    LET ins == InsertAll(txn, new, <<>>)
    IN  IF ins.ok
        THEN [ins EXCEPT !.rows = DeleteMarked(ins.rows)]
        ELSE ins

\* (variant: the generated keys are not written back to the objects, as
\* with bulk_save_objects)
FlushedWithoutId(ids) ==
    [o \in DOMAIN objs |->
        CASE objs[o].st = "pending" ->
                [objs[o] EXCEPT !.st = "persistent", !.attrs = None]
          [] objs[o].st = "marked" -> [objs[o] EXCEPT !.st = "deleted"]
          [] OTHER -> objs[o]]

\* The objects after a flush that gave the pending objects the ids `ids`.
Flushed(ids) ==
    [o \in DOMAIN objs |->
        CASE objs[o].st = "pending" ->
                [objs[o] EXCEPT !.st = "persistent", !.id = Some(ids[o]),
                                 !.attrs = None]
          [] objs[o].st = "marked" -> [objs[o] EXCEPT !.st = "deleted"]
          [] OTHER -> objs[o]]

\* The objects after COMMIT.
Committed(os) ==
    [o \in DOMAIN os |->
        CASE os[o].st = "persistent" -> [os[o] EXCEPT !.committed = TRUE]
          [] os[o].st = "deleted" -> [os[o] EXCEPT !.st = "detached"]
          [] OTHER -> os[o]]

\* (variant: an expunged object loses the id it was given)
RolledBackUnkeyed ==
    [o \in DOMAIN objs |->
        CASE objs[o].st \in {"pending", "persistent", "marked", "deleted"}
                /\ ~objs[o].committed ->
                    [objs[o] EXCEPT !.st = "expunged", !.attrs = None,
                                    !.id = None]
          [] objs[o].st \in {"marked", "deleted"} ->
                [objs[o] EXCEPT !.st = "persistent"]
          [] OTHER -> objs[o]]

\* The objects after ROLLBACK: what the transaction added is expunged (its
\* attributes stay as they are), what it deleted is persistent again.
RolledBack ==
    [o \in DOMAIN objs |->
        CASE objs[o].st \in {"pending", "persistent", "marked", "deleted"}
                /\ ~objs[o].committed ->
                    [objs[o] EXCEPT !.st = "expunged", !.attrs = None]
          [] objs[o].st \in {"marked", "deleted"} ->
                [objs[o] EXCEPT !.st = "persistent"]
          [] OTHER -> objs[o]]

\* The store after a flush failed with `partial` written so far: the
\* transaction is rolled back.
\* (variant: the rows written before the error stay)
RestoredPartial(partial) == partial
Restored(partial) == table

\* What a call returned (ok, rows: a sequence of records) or raised (not ok,
\* rows: the IntegrityError's constraint).
Outcome(op, ok, rows) == [op |-> op, ok |-> ok, rows |-> rows]
Raised(op, constraint) == Outcome(op, FALSE, <<[constraint |-> constraint]>>)

\* A call that sends no statement to the store and returns nothing.
NoResult == Outcome("none", TRUE, <<>>)

\* A failed flush: IntegrityError, and the session rolls back.
FlushFailed(op, f) ==
    /\ txn' = Restored(f.rows)
    /\ table' = Restored(f.rows)
    /\ objs' = RolledBack
    /\ new' = <<>>
    /\ result' = Raised(op, f.err)

-----------------------------------------------------------------------------
\* Statements.

\* Student(...)
DoConstruct(n, e, g, b) ==
    /\ objs' = Append(objs, Student(n, e, g, b))
    /\ result' = NoResult
    /\ UNCHANGED <<table, txn, new, now, default_enrolled>>

\* session.add(student)
DoAdd(o) ==
    /\ o \in DOMAIN objs
    /\ objs[o].st = "transient"
    /\ objs' = [objs EXCEPT ![o].st = "pending"]
    /\ new' = Append(new, o)
    /\ result' = NoResult
    /\ UNCHANGED <<table, txn, now, default_enrolled>>

\* session.commit()
DoCommit ==
    LET f == Flush
    IN  /\ IF f.ok
           THEN /\ table' = f.rows
                /\ txn' = f.rows
                /\ objs' = Committed(Flushed(f.ids))
                /\ new' = <<>>
                /\ result' = Outcome("commit", TRUE, <<>>)
           ELSE FlushFailed("commit", f)
        /\ UNCHANGED <<now, default_enrolled>>

\* session.delete(student)
DoDelete(o) ==
    /\ o \in DOMAIN objs
    /\ objs[o].st = "persistent"
    /\ objs' = [objs EXCEPT ![o].st = "marked"]
    /\ result' = NoResult
    /\ UNCHANGED <<table, txn, new, now, default_enrolled>>

\* Student.grade + 1
\* (variant: the increment is 2)
PlusTwo(g) == IF g = None THEN None ELSE Some(g[1] + 2)
PlusOne(g) == IF g = None THEN None ELSE Some(g[1] + 1)

\* UPDATE students SET grade = grade + 1
Incremented(rows) == {[r EXCEPT !.grade = PlusOne(r.grade)] : r \in rows}

\* The table after the UPDATE statement: a row that fails the CHECK aborts
\* the statement, which then changes no row.
Updated(rows) ==
    IF \A r \in Incremented(rows) : CheckGrade(r.grade)
    THEN Incremented(rows) ELSE rows

UpdateOk(rows) == \A r \in Incremented(rows) : CheckGrade(r.grade)

\* session.query(Student).update({Student.grade: Student.grade + 1})
DoUpdate ==
    LET f == Flush
    IN  /\ IF f.ok
           THEN /\ txn' = Updated(f.rows)
                /\ objs' = Flushed(f.ids)
                /\ new' = <<>>
                /\ result' = IF UpdateOk(f.rows)
                             THEN Outcome("update", TRUE,
                                          <<[rowcount |-> Cardinality(f.rows)]>>)
                             ELSE Raised("update", "grade_between_1_and_12")
                /\ UNCHANGED table
           ELSE FlushFailed("update", f)
        /\ UNCHANGED <<now, default_enrolled>>

-----------------------------------------------------------------------------
\* Queries.  A query flushes the session first (autoflush) and then reads the
\* rows of the open transaction.

\* The order of the names under the store's collation; NULL sorts first.
Collation == <<"Alan Turing", "Albert Einstein">>
NameRank(n) == IF n = None THEN 0 ELSE CHOOSE i \in 1..Len(Collation) : Collation[i] = n[1]

\* Comparison of grades under ORDER BY: NULL sorts below every integer.
GradeGE(a, b) == b = None \/ (a # None /\ a[1] >= b[1])
\* (variant: the order is ascending)
LowestGrade(rows) == {r \in rows : \A s \in rows : GradeGE(s.grade, r.grade)}
HighestGrade(rows) == {r \in rows : \A s \in rows : GradeGE(r.grade, s.grade)}

\* The rows that may come first under an ordering: "rowid" (no ORDER BY),
\* "name" (order_by(Student.name)), "grade desc" (order_by(desc(Student.grade))).
Firsts(order, rows) ==
    CASE order = "rowid" -> rows
      [] order = "name" ->
            {r \in rows : \A s \in rows : NameRank(r.name) <= NameRank(s.name)}
      [] order = "grade desc" -> HighestGrade(rows)

\* The rows as a sequence in that order; ties are resolved by rowid.
RECURSIVE Ordered(_, _)
Ordered(rows, order) ==
    IF rows = {} THEN <<>>
    ELSE LET r == CHOOSE x \in Firsts(order, rows) :
                     \A y \in Firsts(order, rows) : x.id <= y.id
         IN  <<r>> \o Ordered(rows \ {r}, order)

\* The columns a query selects from a row.
Select(cols, r) ==
    CASE cols = "name" -> [name |-> r.name]
      [] cols = "name, grade" -> [name |-> r.name, grade |-> r.grade]
      [] cols = "name, birthday" -> [name |-> r.name, birthday |-> r.birthday]
      [] cols = "*" -> r

Project(s, cols) == [i \in 1..Len(s) |-> Select(cols, s[i])]

\* session.query(Student)
QueryAll(rows) == {Project(Ordered(rows, "rowid"), "*")}
\* session.query(Student.name)
QueryNames(rows) == {Project(Ordered(rows, "rowid"), "name")}
\* session.query(Student.name).order_by(Student.name)
QueryByName(rows) == {Project(Ordered(rows, "name"), "name")}
\* session.query(Student.name, Student.grade).order_by(desc(Student.grade))
QueryByGrade(rows) == {Project(Ordered(rows, "grade desc"), "name, grade")}
\* session.query(Student.name, Student.birthday).order_by(desc(Student.grade)).limit(1):
\* the store may return any of the rows that sort first.
QueryOldest(rows) ==
    IF rows = {} THEN {<<>>}
    ELSE {<<Select("name, birthday", r)>> : r \in Firsts("grade desc", rows)}
\* session.query(func.count(Student.id)).first(): count() counts the non-NULL ids.
QueryCount(rows) == {<<[count |-> Cardinality({r \in rows : Some(r.id) # None})]>>}
\* [(student.name, student.grade) for student in session.query(Student)]
QueryNameGrade(rows) == {Project(Ordered(rows, "rowid"), "name, grade")}

Matching(rows, n) == {r \in rows : r.name = Some(n)}
\* session.query(Student).filter(Student.name == n).first(): the matching row
\* of the lowest rowid, or None.
QueryFirst(rows, n) ==
    IF Matching(rows, n) = {} THEN {None}
    ELSE {<<CHOOSE r \in Matching(rows, n) : \A s \in Matching(rows, n) : r.id <= s.id>>}

FirstEinstein(rows) == QueryFirst(rows, "Albert Einstein")

\* The answers the store may give to the script's query `op`.
Answers(op, rows) ==
    CASE op = "all" -> QueryAll(rows)
      [] op = "names" -> QueryNames(rows)
      [] op = "by_name" -> QueryByName(rows)
      [] op = "by_grade" -> QueryByGrade(rows)
      [] op = "oldest" -> QueryOldest(rows)
      [] op = "count" -> QueryCount(rows)
      [] op = "name_grade" -> QueryNameGrade(rows)
      [] op = "first" -> FirstEinstein(rows)

DoQuery(op) ==
    LET f == Flush
    IN  /\ IF f.ok
           THEN /\ txn' = f.rows
                /\ objs' = Flushed(f.ids)
                /\ new' = <<>>
                /\ \E a \in Answers(op, f.rows) : result' = Outcome(op, TRUE, a)
                /\ UNCHANGED table
           ELSE FlushFailed(op, f)
        /\ UNCHANGED <<now, default_enrolled>>

-----------------------------------------------------------------------------
\* The repository's operations, called in any order on the fresh store.

\* Base.metadata.create_all(engine); session = Session(): an empty table, an
\* empty session.  The class body has run: the default of enrolled_date is
\* the value datetime.now() had then.
Fresh ==
    /\ table = {}
    /\ txn = {}
    /\ objs = <<>>
    /\ new = <<>>
    /\ now = 0
    /\ default_enrolled = Some(now)
    /\ result = NoResult

Init == Fresh /\ pc = "session"

\* Time passes.
Tick ==
    /\ now < MaxTime
    /\ now' = now + 1
    /\ UNCHANGED <<table, txn, objs, new, default_enrolled, result, pc>>

\* student = Student(...); session.add(student), with any arguments.
Add ==
    /\ Len(objs) < MaxStudents
    /\ \E n \in Names, e \in Optional(Emails), g \in Optional(Grades) :
          /\ objs' = Append(objs, [Student(Some(n), e, g, None)
                                      EXCEPT !.st = "pending"])
          /\ new' = Append(new, Len(objs) + 1)
    /\ result' = NoResult
    /\ UNCHANGED <<table, txn, now, default_enrolled, pc>>

Commit == DoCommit /\ UNCHANGED pc
Delete == (\E o \in DOMAIN objs : DoDelete(o)) /\ UNCHANGED pc
Update == DoUpdate /\ UNCHANGED pc
First == DoQuery("first") /\ UNCHANGED pc
Oldest == DoQuery("oldest") /\ UNCHANGED pc

\* The clock stays at the time of the class statement here: no operation but
\* the column default reads it, and ScriptSpec lets it advance.
Next ==
    \/ Add
    \/ Commit
    \/ Delete
    \/ Update
    \/ Oldest
    \/ First

Spec == Init /\ [][Next]_vars

-----------------------------------------------------------------------------
\* The run of the script, statement by statement; pc names the line of the
\* next statement.  The clock advances between statements.

ScriptInit ==
    /\ table = {}
    /\ txn = {}
    /\ objs = <<>>
    /\ new = <<>>
    /\ now = 0
    /\ default_enrolled = None
    /\ result = NoResult
    /\ pc = "l13"

Goto(l) == pc' = l

\* class Student(Base): the class body runs once; Column(DateTime(),
\* default=datetime.now()) calls datetime.now() here and keeps the value.
L13 ==
    /\ pc = "l13"
    /\ default_enrolled' = Some(now)
    /\ Goto("l49")
    /\ UNCHANGED <<table, txn, objs, new, now, result>>

\* create_engine, create_all, Session(): an empty table, an empty session.
L49 ==
    /\ pc = "l49"
    /\ table' = {}
    /\ txn' = {}
    /\ new' = <<>>
    /\ Goto("l57")
    /\ UNCHANGED <<objs, now, default_enrolled, result>>

L57 ==
    /\ pc = "l57"
    /\ DoConstruct(Some("Albert Einstein"), Some("albert.einstein@zurich.edu"),
                   Some(6), Some("1879-03-14"))
    /\ Goto("l67")

L67 ==
    /\ pc = "l67"
    /\ DoConstruct(Some("Alan Turing"), Some("alan.turing@sherborne.edu"),
                   Some(11), Some("1912-06-23"))
    /\ Goto("l80")

\* albert_einstein is the first object constructed, alan_turing the second.
L80 == pc = "l80" /\ DoAdd(1) /\ Goto("l81")
L81 == pc = "l81" /\ DoCommit /\ Goto("l82")
L82 == pc = "l82" /\ DoAdd(2) /\ Goto("l83")
L83 == pc = "l83" /\ DoCommit /\ Goto("l94")
L94 == pc = "l94" /\ DoQuery("all") /\ Goto("l105")
L105 == pc = "l105" /\ DoQuery("names") /\ Goto("l110")
L110 == pc = "l110" /\ DoQuery("by_name") /\ Goto("l113")
L113 == pc = "l113" /\ DoQuery("by_grade") /\ Goto("l118")
L118 == pc = "l118" /\ DoQuery("oldest") /\ Goto("l127")
\* line 135 only builds a query; nothing is sent to the store.
L127 == pc = "l127" /\ DoQuery("count") /\ Goto("l140")
L140 == pc = "l140" /\ DoUpdate /\ Goto("l142")
\* line 147 only builds the query that lines 150 and 157 run.
L142 == pc = "l142" /\ DoQuery("name_grade") /\ Goto("l150")
L150 == pc = "l150" /\ DoQuery("first") /\ Goto("l153")

\* session.delete(albert_einstein): the object query.first() returned, which
\* is the session's object of that row.
L153 ==
    /\ pc = "l153"
    /\ result.rows # None
    /\ \E o \in DOMAIN objs :
          /\ objs[o].id = Some(result.rows[1].id)
          /\ DoDelete(o)
    /\ Goto("l154")

L154 == pc = "l154" /\ DoCommit /\ Goto("l157")
L157 == pc = "l157" /\ DoQuery("first") /\ Goto("done")

ScriptNext ==
    \/ Tick
    \/ L13
    \/ L49
    \/ L57
    \/ L67
    \/ L80
    \/ L81
    \/ L82
    \/ L83
    \/ L94
    \/ L105
    \/ L110
    \/ L113
    \/ L118
    \/ L127
    \/ L140
    \/ L142
    \/ L150
    \/ L153
    \/ L154
    \/ L157

ScriptSpec == ScriptInit /\ [][ScriptNext]_vars

-----------------------------------------------------------------------------
\* Properties.

\* The objects whose row is in the open transaction.
Persisted(os) == {o \in DOMAIN os : os[o].st \in {"persistent", "marked"}}

NoSharedEmail(rows) ==
    \A r, s \in rows : (r # s /\ r.email # None) => r.email # s.email

\* A pending Student carries an email that a row of the store already has.
PendingDuplicate ==
    \E i \in 1..Len(new) : \E r \in txn :
        r.email # None /\ objs[new[i]].attrs[1].email = r.email

\* C1: no two rows of the store carry the same email (a row without an email,
\* NULL, carries none), after every statement; and a commit that is to insert
\* a Student whose email a stored row already has fails and leaves the
\* committed store as it was.
C1_UniqueEmail ==
    [][/\ NoSharedEmail(table')
       /\ NoSharedEmail(txn')
       /\ (DoCommit /\ PendingDuplicate) => (~result'.ok /\ table' = table)]_vars

\* A commit failed on the UNIQUE constraint while a row with an email is stored.
C1_Witness ==
    /\ result = Raised("commit", "unique-email")
    /\ \E r \in table : r.email # None

\* C2: every stored row has a grade, and it is between 1 and 12.
C2_GradeInRange ==
    \A r \in table \cup txn : r.grade # None /\ r.grade[1] >= 1 /\ r.grade[1] <= 12

\* C3, as claimed: an id given to one Student is never given to another one.
C3_NeverReused ==
    \A o, p \in DOMAIN objs :
        (o # p /\ objs[o].id # None) => objs[p].id # objs[o].id

\* C3, amended: an id, once given, never changes; a newly given id is larger
\* than every id in the store at that moment; no two stored rows share an id.
C3_IdStable ==
    [][/\ \A o \in DOMAIN objs : objs[o].id # None => objs'[o].id = objs[o].id
       /\ \A o \in DOMAIN objs' :
            ((o \notin DOMAIN objs \/ objs[o].id = None) /\ objs'[o].id # None)
                => \A r \in txn : r.id < objs'[o].id[1]
       /\ \A r, s \in txn' : r.id = s.id => r = s
       /\ \A r, s \in table' : r.id = s.id => r = s]_vars

\* The id of a deleted Student has been given to a Student inserted later.
C3_Witness ==
    \E o, p \in DOMAIN objs :
        /\ objs[o].st = "detached"
        /\ objs[p].st = "persistent"
        /\ objs[p].id = objs[o].id

\* C4: a Student that is not flushed yet has no id; a Student whose row is
\* stored has an id, its row is in the store, and no other stored Student
\* has that id; when every Student constructed so far is committed, their
\* ids are 1, 2, ... in the order of insertion.
C4_IdAssignedOnCommit ==
    /\ \A o \in DOMAIN objs :
          objs[o].st \in {"transient", "pending"} => objs[o].id = None
    /\ \A o \in Persisted(objs) :
          /\ objs[o].id # None
          /\ \E r \in txn : Some(r.id) = objs[o].id
          /\ \A p \in Persisted(objs) : p # o => objs[p].id # objs[o].id
    /\ (\A o \in DOMAIN objs : objs[o].st = "persistent" /\ objs[o].committed)
          => \A o \in DOMAIN objs : objs[o].id = Some(o)

\* Two Students are committed.
C4_Witness ==
    /\ Len(objs) = 2
    /\ \A o \in DOMAIN objs : objs[o].st = "persistent" /\ objs[o].committed
    /\ Cardinality(table) = 2

\* C5: a commit that fails leaves the committed store as it was, and the
\* session sees that store again.
C5_FailedCommitAtomic ==
    [][(DoCommit /\ ~result'.ok) => (table' = table /\ txn' = table)]_vars

\* A commit of two added Students failed on the second one: the first one
\* was valid, and no row is stored.
C5_Witness ==
    /\ result = Raised("commit", "unique-email")
    /\ table = {}
    /\ Len(objs) = 2
    /\ \A o \in DOMAIN objs : objs[o].st = "expunged"

\* C6: the update of every grade by 1 either succeeds, and then every row's
\* grade is its grade before plus 1 and is between 1 and 12, or it fails, and
\* then every row is as it was before the statement or at the last commit.
C6_UpdateTwoOutcomes ==
    [][DoUpdate =>
        LET before == IF Flush.ok THEN Flush.rows ELSE txn
        IN  \/ /\ result'.ok
               /\ \A r \in txn' :
                    /\ r.grade # None /\ r.grade[1] >= 1 /\ r.grade[1] <= 12
                    /\ \E old \in before :
                          /\ old.id = r.id
                          /\ old.grade # None
                          /\ r.grade = Some(old.grade[1] + 1)
            \/ /\ ~result'.ok
               /\ \A r \in txn' : r \in before \cup table]_vars

\* C7, as claimed: once a Student's delete is committed, no lookup by its id
\* finds a row any more, and the filter that selected it finds nothing right
\* after the commit.
C7_NeverFoundAgain ==
    [][/\ \A o \in DOMAIN objs' :
            objs'[o].st = "detached" => \A r \in txn' : Some(r.id) # objs'[o].id
       /\ \A o \in DOMAIN objs :
            (objs[o].st = "marked" /\ objs'[o].st = "detached")
                => \A r \in txn : Some(r.id) = objs[o].id
                      => QueryFirst(table', r.name[1]) = {None}]_vars

\* C7, amended: once a Student's delete is committed, a lookup by its id or
\* by the filter finds no row, or the row of another Student that is stored
\* and was given that id later or matches the filter; the commit leaves every
\* row that is not deleted as it was.
C7_DeletedStaysGone ==
    [][/\ \A o \in DOMAIN objs' :
            objs'[o].st = "detached" =>
                /\ \A r \in txn' : Some(r.id) = objs'[o].id
                      => \E p \in Persisted(objs') : p # o /\ objs'[p].id = objs'[o].id
                /\ \A a \in FirstEinstein(txn') : a # None
                      => \E p \in Persisted(objs') : p # o /\ objs'[p].id = Some(a[1].id)
       /\ (DoCommit /\ result'.ok)
            => \A r \in txn : r.id \notin Marked => r \in table']_vars

\* A Student is deleted, the lookup finds nothing, another Student is stored.
C7_Witness ==
    /\ result = Outcome("first", TRUE, None)
    /\ \E o \in DOMAIN objs : objs[o].st = "detached"
    /\ table # {}

\* C8: the query for the highest grade, limited to 1, returns nothing on the
\* empty store and otherwise exactly one record, the name and birthday of a
\* row whose grade is not below the grade of any stored row.
C8_OldestIsHighest ==
    (result.op = "oldest" /\ result.ok) =>
        IF txn = {} THEN result.rows = <<>>
        ELSE /\ Len(result.rows) = 1
             /\ \E r \in txn :
                  /\ result.rows[1] = [name |-> r.name, birthday |-> r.birthday]
                  /\ \A s \in txn : s.grade # None
                        => r.grade # None /\ r.grade[1] >= s.grade[1]

\* The query ran on two rows of different grades and names.
C8_Witness ==
    /\ result.op = "oldest"
    /\ result.ok
    /\ \E r, s \in txn :
          /\ r.grade # None /\ s.grade # None /\ r.grade[1] > s.grade[1]
          /\ r.name # s.name

\* C9: the enrolled_date of a stored row is the time its Student was
\* constructed, so Students constructed at different times have different
\* enrolled_date values.
C9_EnrolledAtConstruction ==
    \A o \in Persisted(objs) : \A r \in txn :
        Some(r.id) = objs[o].id => r.enrolled_date = Some(objs[o].constructed)

Einstein == Some("Albert Einstein")
Turing == Some("Alan Turing")

\* C10: count() is the number of stored Students; in the script the two
\* Students get ids 1 and 2, count() returns 2, the highest-grade query
\* returns Alan Turing, the update makes the grades 7 and 12, and at the end
\* the lookup of Einstein returns None and the only row is Alan Turing, id 2,
\* grade 12.
C10_ScriptRun ==
    /\ QueryCount(txn) = {<<[count |-> Cardinality(Persisted(objs))]>>}
    /\ pc = "l94" => objs[1].id = Some(1) /\ objs[2].id = Some(2)
    /\ pc = "l127" =>
          result = Outcome("oldest", TRUE,
                           <<[name |-> Turing, birthday |-> Some("1912-06-23")]>>)
    /\ pc = "l140" => result = Outcome("count", TRUE, <<[count |-> 2]>>)
    /\ pc = "l150" =>
          result = Outcome("name_grade", TRUE,
                           <<[name |-> Einstein, grade |-> Some(7)],
                             [name |-> Turing, grade |-> Some(12)]>>)
    /\ pc = "done" =>
          /\ result = Outcome("first", TRUE, None)
          /\ QueryCount(table) = {<<[count |-> 1]>>}
          /\ \A r \in table : r.id = 2 /\ r.name = Turing /\ r.grade = Some(12)
          /\ txn = table

\* The script has run to its end.
C10_Witness == pc = "done" /\ Cardinality(table) = 1

====
